---- MODULE Spec2Model ----
(***************************************************************************)
(* PageRank estimators of pagerank.py: transition_model, sample_pagerank   *)
(* and iterate_pagerank.                                                   *)
(*                                                                         *)
(* Python floats are modelled as exact rationals <<num, den>> in lowest    *)
(* terms with den > 0, so "sums to 1" is exact here where the program's    *)
(* result carries floating-point rounding.                                 *)
(***************************************************************************)
EXTENDS Integers, Sequences, FiniteSets, TLC

VARIABLES corpus, damping_factor, n, fn, pc, outcome,
          pagerank, page, i, change, distribution

vars == <<corpus, damping_factor, n, fn, pc, outcome,
          pagerank, page, i, change, distribution>>

(* ------------------------------ bounds --------------------------------- *)

\* Largest number of pages in a corpus.
MaxPages == 3

\* Largest sample count n passed to sample_pagerank.
MaxSamples == 3

\* Largest number of pages in a corpus of SampleFairSpec.
MaxFairPages == 2

\* random.random() is drawn from {0/RandRes, ..., (RandRes-1)/RandRes}.
RandRes == 3

(* ---------------------------- rationals -------------------------------- *)

Abs(x) == IF x < 0 THEN -x ELSE x

\* In the operators below "x \in {a}" names the value of the argument a, so
\* that a is evaluated once however often the body uses it.
RECURSIVE gcd(_, _)
gcd(a, b) ==
    IF b = 0 THEN a
    ELSE CHOOSE g \in {gcd(y, x % y) : x \in {a}, y \in {b}} : TRUE

\* The rational num/den (den # 0) in lowest terms with positive denominator.
Rat(num, den) ==
    CHOOSE r \in {<<((IF y < 0 THEN -1 ELSE 1) * x) \div g,
                    ((IF y < 0 THEN -1 ELSE 1) * y) \div g>> :
                  x \in {num}, y \in {den}, g \in {gcd(Abs(num), Abs(den))}} : TRUE

Int2Rat(k) == <<k, 1>>

RAdd(a, b) ==
    CHOOSE r \in {Rat(x[1] * y[2] + y[1] * x[2], x[2] * y[2]) :
                  x \in {a}, y \in {b}} : TRUE
RSub(a, b) ==
    CHOOSE r \in {Rat(x[1] * y[2] - y[1] * x[2], x[2] * y[2]) :
                  x \in {a}, y \in {b}} : TRUE
RMul(a, b) ==
    CHOOSE r \in {Rat(x[1] * y[1], x[2] * y[2]) : x \in {a}, y \in {b}} : TRUE
RDiv(a, b) ==
    CHOOSE r \in {Rat(x[1] * y[2], x[2] * y[1]) : x \in {a}, y \in {b}} : TRUE
RLeq(a, b) == \E x \in {a}, y \in {b} : x[1] * y[2] <= y[1] * x[2]
RLess(a, b) == \E x \in {a}, y \in {b} : x[1] * y[2] < y[1] * x[2]
RAbs(a) == CHOOSE r \in {<<Abs(x[1]), x[2]>> : x \in {a}} : TRUE

Zero == Int2Rat(0)
One == Int2Rat(1)

(* ------------------------------ inputs --------------------------------- *)

\* Page names, in the order a corpus dict lists them.
AllPages == <<"A", "B", "C", "D", "E">>

Pages == {AllPages[k] : k \in 1..MaxPages}

\* list(d.keys()) for a dict whose key set is S: the keys in dict order.
RECURSIVE KeysFrom(_, _)
KeysFrom(S, k) ==
    IF k > Len(AllPages) THEN <<>>
    ELSE IF AllPages[k] \in S THEN <<AllPages[k]>> \o KeysFrom(S, k + 1)
    ELSE KeysFrom(S, k + 1)

keys(d) == KeysFrom(DOMAIN d, 1)

\* The corpus crawl returns: every page maps to a set of other pages of the
\* corpus (no self-links, no links outside the corpus).  May be empty.
Corpora ==
    UNION {{c \in [K -> SUBSET K] : \A p \in K : p \notin c[p]} : K \in SUBSET Pages}

\* Damping factors in [0, 1]; 17/20 is DAMPING.
Dampings == {Rat(0, 1), Rat(17, 20), Rat(1, 1)}

\* A dict with no entries.
EmptyTable == [p \in {} |-> Zero]

\* sum of the values of table d
RECURSIVE SumSeq(_, _, _)
SumSeq(d, ks, k) ==
    IF k > Len(ks) THEN Zero ELSE RAdd(d[ks[k]], SumSeq(d, ks, k + 1))

Total(d) == SumSeq(d, keys(d), 1)

(* ------------------------- transition_model ---------------------------- *)

len(S) == Int2Rat(Cardinality(S))

\* Mutant: the link share divided by the corpus size, not by the number of
\* links of the page.
transition_model_corpus_share(c, p, d) ==
    IF c[p] # {}
    THEN [link \in DOMAIN c |->
            IF link \in c[p]
            THEN RAdd(RDiv(RSub(One, d), len(DOMAIN c)), RDiv(d, len(DOMAIN c)))
            ELSE RDiv(RSub(One, d), len(DOMAIN c))]
    ELSE [link \in DOMAIN c |-> RDiv(One, len(DOMAIN c))]

\* Mutant: no branch for a page without links; it gets the random-jump term
\* alone.
transition_model_no_sink_case(c, p, d) ==
    [link \in DOMAIN c |->
        IF link \in c[p]
        THEN RAdd(RDiv(RSub(One, d), len(DOMAIN c)), RDiv(d, len(c[p])))
        ELSE RDiv(RSub(One, d), len(DOMAIN c))]

\* transition_model(corpus, page, damping_factor): the distribution dict.
transition_model(c, p, d) ==
    IF c[p] # {}
    THEN [link \in DOMAIN c |->
            IF link \in c[p]
            THEN RAdd(RDiv(RSub(One, d), len(DOMAIN c)), RDiv(d, len(c[p])))
            ELSE RDiv(RSub(One, d), len(DOMAIN c))]
    ELSE [link \in DOMAIN c |-> RDiv(One, len(DOMAIN c))]

(* --------------------------- random.choices ---------------------------- *)

\* itertools.accumulate(weights): the running totals of d's values, in
\* dict order.
RECURSIVE accumulate(_, _, _)
accumulate(d, ks, k) ==
    IF k = 0 THEN <<>>
    ELSE IF k = 1 THEN <<d[ks[1]]>>
    ELSE CHOOSE a \in {Append(prev, RAdd(prev[k - 1], d[ks[k]])) :
                       prev \in {accumulate(d, ks, k - 1)}} : TRUE

\* bisect.bisect(a, x, lo, hi) (bisect_right): a is 0-indexed in Python,
\* a[mid] there is a[mid + 1] here.
RECURSIVE bisect(_, _, _, _)
bisect(a, x, lo, hi) ==
    IF lo < hi
    THEN LET mid == (lo + hi) \div 2
         IN  IF RLess(x, a[mid + 1])
             THEN bisect(a, x, lo, mid)
             ELSE bisect(a, x, mid + 1, hi)
    ELSE lo

\* random.random(): one of the RandRes values r/RandRes in [0, 1).
RandomValues == {Rat(r, RandRes) : r \in 0..(RandRes - 1)}

\* Mutant: random.choice(population), the weights ignored.
choices_unweighted(population, weights, u) ==
    population[((u[1] * Len(population)) \div u[2]) + 1]

\* random.choices(population, weights, k=1)[0] given the value u returned
\* by random.random(); "ValueError" when the total weight is not positive.
choices(population, weights, u) ==
    CHOOSE drawn \in
        {LET total == cum_weights[Len(population)]
         IN  IF RLeq(total, Zero)
             THEN "ValueError"
             ELSE population[bisect(cum_weights, RMul(u, total), 0,
                                    Len(population) - 1) + 1] :
         cum_weights \in {accumulate(weights, population, Len(population))}} :
        TRUE

(* --------------------------- sample_pagerank --------------------------- *)

\* Mutant: range(1, n + 1).
range1_inclusive(m) == 1..m

\* range(1, n): the values the loop variable i takes.
range1(m) == 1..(m - 1)

\* pagerank[page] = ((i-1) * pagerank[page] + cur_pagerank[page]) / i
running_average(old, cur, k) ==
    [p \in DOMAIN old |->
        RDiv(RAdd(RMul(Int2Rat(k - 1), old[p]), cur[p]), Int2Rat(k))]

\* All counters set to 0, then the starting page drawn by random.choice,
\* which raises IndexError on an empty list.
sample_begin ==
    /\ fn = "sample_pagerank"
    /\ pc = "start"
    /\ pagerank' = [p \in DOMAIN corpus |-> Zero]
    /\ IF DOMAIN corpus = {}
       THEN /\ outcome' = "IndexError"
            /\ pc' = "done"
            /\ page' = page
       ELSE /\ \E start \in DOMAIN corpus : page' = start
            /\ pc' = "loop"
            /\ outcome' = outcome
    /\ UNCHANGED <<corpus, damping_factor, n, fn, i, change, distribution>>

\* One iteration of "for i in range(1, n)".
sample_step ==
    /\ fn = "sample_pagerank"
    /\ pc = "loop"
    /\ i + 1 \in range1(n)
    /\ \E cur_pagerank \in {transition_model(corpus, page, damping_factor)} :
       \E newrank \in {running_average(pagerank, cur_pagerank, i + 1)} :
       \E u \in RandomValues :
       \E drawn \in {choices(keys(newrank), newrank, u)} :
          LET failed == drawn = "ValueError"
          IN  /\ i' = i + 1
              /\ distribution' = cur_pagerank
              /\ pagerank' = newrank
              /\ page' = (IF failed THEN page ELSE drawn)
              /\ outcome' = (IF failed THEN "ValueError" ELSE outcome)
              /\ pc' = (IF failed THEN "done" ELSE pc)
    /\ UNCHANGED <<corpus, damping_factor, n, fn, change>>

\* range(1, n) is exhausted: return pagerank.
sample_return ==
    /\ fn = "sample_pagerank"
    /\ pc = "loop"
    /\ i + 1 \notin range1(n)
    /\ outcome' = "returned"
    /\ pc' = "done"
    /\ UNCHANGED <<corpus, damping_factor, n, fn, pagerank, page, i, change,
                   distribution>>

(* -------------------------- iterate_pagerank --------------------------- *)

\* Tolerance of the convergence test, abs_tol = 1/TolDen.
TolDen == 1000

\* math.isclose(a, b, abs_tol=0.001).  The default rel_tol term,
\* 1e-09 * max(|a|, |b|), is below abs_tol for ranks, which lie in [0, 1].
isclose(a, b) == RLeq(RAbs(RSub(a, b)), Rat(1, TolDen))

\* Mutant: pages without links contribute nothing.
RECURSIVE link_sum_no_sink(_, _, _, _, _)
link_sum_no_sink(c, rank, p, ks, k) ==
    IF k > Len(ks) THEN Zero
    ELSE LET newpage == ks[k]
             linked == IF p \in c[newpage]
                       THEN RDiv(rank[newpage], len(c[newpage]))
                       ELSE Zero
         IN  RAdd(linked, link_sum_no_sink(c, rank, p, ks, k + 1))

\* The inner loop over newpage: what the pages linking to p, and the pages
\* with no links at all, contribute to p.
RECURSIVE link_sum(_, _, _, _, _)
link_sum(c, rank, p, ks, k) ==
    IF k > Len(ks) THEN Zero
    ELSE LET newpage == ks[k]
             linked == IF p \in c[newpage]
                       THEN RDiv(rank[newpage], len(c[newpage]))
                       ELSE Zero
             sink == IF c[newpage] = {}
                     THEN RDiv(rank[newpage], len(DOMAIN c))
                     ELSE Zero
         IN  RAdd(RAdd(linked, sink), link_sum(c, rank, p, ks, k + 1))

\* Mutant: the damping factor applied to the random-jump term only.
new_ranks_undamped_sum(c, rank, d) ==
    [p \in DOMAIN rank |->
        RAdd(RDiv(RSub(One, d), len(DOMAIN c)),
             link_sum(c, rank, p, keys(c), 1))]

\* newrank after the loop over the pages of pagerank.
new_ranks(c, rank, d) ==
    [p \in DOMAIN rank |->
        RAdd(RDiv(RSub(One, d), len(DOMAIN c)),
             RMul(d, link_sum(c, rank, p, keys(c), 1)))]

\* pagerank[page] = 1 / len(corpus) for every page; change = True.
iterate_begin ==
    /\ fn = "iterate_pagerank"
    /\ pc = "start"
    /\ pagerank' = [p \in DOMAIN corpus |-> RDiv(One, len(DOMAIN corpus))]
    /\ change' = TRUE
    /\ pc' = "while"
    /\ UNCHANGED <<corpus, damping_factor, n, fn, outcome, page, i,
                   distribution>>

\* The body of "while change": one pass, the convergence test, the copy of
\* newrank into pagerank, and the return statement that ends the body.
iterate_pass ==
    /\ fn = "iterate_pagerank"
    /\ pc = "while"
    /\ change
    /\ \E newrank \in {new_ranks(corpus, pagerank, damping_factor)} :
           /\ change' = (\E p \in DOMAIN pagerank :
                            ~isclose(newrank[p], pagerank[p]))
           /\ pagerank' = newrank
    /\ outcome' = "returned"
    /\ pc' = "done"
    /\ UNCHANGED <<corpus, damping_factor, n, fn, page, i, distribution>>

(* ----------------------- a call of transition_model -------------------- *)

transition_call ==
    /\ fn = "transition_model"
    /\ pc = "start"
    /\ \E p \in DOMAIN corpus :
          /\ page' = p
          /\ distribution' = transition_model(corpus, p, damping_factor)
    /\ outcome' = "returned"
    /\ pc' = "done"
    /\ UNCHANGED <<corpus, damping_factor, n, fn, pagerank, i, change>>

(* --------------------------- specification ----------------------------- *)

Init ==
    /\ corpus \in Corpora
    /\ damping_factor \in Dampings
    /\ fn \in {"transition_model", "sample_pagerank", "iterate_pagerank"}
    /\ fn = "transition_model" => DOMAIN corpus # {}
    /\ n \in (IF fn = "sample_pagerank" THEN 1..MaxSamples ELSE {0})
    /\ pc = "start"
    /\ outcome = "running"
    /\ pagerank = EmptyTable
    /\ page = "none"
    /\ i = 0
    /\ change = FALSE
    /\ distribution = EmptyTable

Next ==
    \/ transition_call
    \/ sample_begin
    \/ sample_step
    \/ sample_return
    \/ iterate_begin
    \/ iterate_pass

Spec == Init /\ [][Next]_vars

\* sample_pagerank alone, on the smaller corpora, and run to completion: the
\* program is single-threaded and a call waits for nothing.
InitSample ==
    /\ Init
    /\ fn = "sample_pagerank"
    /\ Cardinality(DOMAIN corpus) <= MaxFairPages

NextSample ==
    \/ sample_begin
    \/ sample_step
    \/ sample_return

SampleFairSpec == InitSample /\ [][NextSample]_vars /\ WF_vars(NextSample)

(* ------------------------------ properties ----------------------------- *)

\* DAMPING, the damping factor main passes to both estimators.
DAMPING == Rat(17, 20)

SampleDone == fn = "sample_pagerank" /\ pc = "done"
IterateDone == fn = "iterate_pagerank" /\ pc = "done"
TransitionDone == fn = "transition_model" /\ pc = "done"

\* The value of distribution was returned by a call of transition_model.
TransitionCalled == TransitionDone \/ (fn = "sample_pagerank" /\ i >= 1)

\* {A: {}}
SinglePage == [p \in {"A"} |-> {}]

\* {A: {}, B: {A}}
SinkPair == [p \in {"A", "B"} |-> IF p = "B" THEN {"A"} ELSE {}]

\* C1 (as claimed): iterate_pagerank returns from a non-empty corpus only
\* after a pass in which no page's rank moved by more than 0.001, that is,
\* with change = False; a pass that moved some rank further is followed by
\* another pass.
C1_ReturnsOnlyWhenConverged ==
    (IterateDone /\ DOMAIN corpus # {}) => ~change

\* C2: a distribution returned by transition_model has exactly the pages of
\* the corpus as keys, no negative value, and values that sum to 1.
C2_TransitionIsDistribution ==
    TransitionCalled =>
        /\ DOMAIN distribution = DOMAIN corpus
        /\ \A p \in DOMAIN distribution : RLeq(Zero, distribution[p])
        /\ Total(distribution) = One

\* C2 witness: a call for a page that links to some but not all of the
\* other pages, with the damping factor strictly between 0 and 1.
C2_Witness ==
    /\ TransitionDone
    /\ damping_factor = DAMPING
    /\ corpus[page] # {}
    /\ \E q \in DOMAIN corpus : q # page /\ q \notin corpus[page]

\* C3: for a page with links, every linked page gets
\* (1 - damping)/|corpus| + damping/|links of page| and every other page,
\* the page itself included, gets (1 - damping)/|corpus|; for a page without
\* links every page gets 1/|corpus|.
C3_TransitionByCases ==
    TransitionDone =>
        LET size == Int2Rat(Cardinality(DOMAIN corpus))
            links == Int2Rat(Cardinality(corpus[page]))
            jump == RDiv(RSub(One, damping_factor), size)
        IN  \A q \in DOMAIN corpus :
              distribution[q] =
                 IF corpus[page] = {} THEN RDiv(One, size)
                 ELSE IF q \in corpus[page]
                      THEN RAdd(jump, RDiv(damping_factor, links))
                      ELSE jump

\* C3 witness: a call for a page without links in a corpus of several
\* pages, with a damping factor above 0.
C3_Witness ==
    /\ TransitionDone
    /\ corpus[page] = {}
    /\ Cardinality(DOMAIN corpus) >= 2
    /\ damping_factor = DAMPING

\* C4: the table iterate_pagerank returns for a non-empty corpus has one
\* entry per page and its values sum to 1 within 0.001.
C4_IterateSumsToOne ==
    (IterateDone /\ DOMAIN corpus # {}) =>
        /\ outcome = "returned"
        /\ DOMAIN pagerank = DOMAIN corpus
        /\ RLeq(RAbs(RSub(Total(pagerank), One)), Rat(1, TolDen))

\* C4 witness: a returned table for a corpus with a page without links, a
\* page with links, and ranks that are not all equal.
C4_Witness ==
    /\ IterateDone
    /\ damping_factor = DAMPING
    /\ \E p, q \in DOMAIN corpus :
          /\ corpus[p] = {}
          /\ corpus[q] # {}
          /\ pagerank[p] # pagerank[q]

\* C5 (as claimed): the table sample_pagerank returns has values that sum
\* to 1, for every n >= 1.
C5_SampleSumsToOne ==
    (SampleDone /\ outcome = "returned") => Total(pagerank) = One

\* C6 (as claimed): for the corpus {A: {}} both estimators return {A: 1}.
C6_SinglePageRankOne ==
    ((SampleDone \/ IterateDone) /\ corpus = SinglePage) =>
        /\ outcome = "returned"
        /\ pagerank = [p \in {"A"} |-> One]

C8_EmptyCorpusFails ==
    (pc = "done" /\ DOMAIN corpus = {}) =>
        outcome \notin {"returned", "ZeroDivisionError"}

\* C9: sample_pagerank on a non-empty corpus always comes to return, and
\* does so after the update steps 1 .. n-1, whatever was drawn.
C9_SampleRunsNMinusOneSteps ==
    (fn = "sample_pagerank" /\ DOMAIN corpus # {} /\ pc = "start")
        ~> (pc = "done" /\ outcome = "returned" /\ i = n - 1)

\* C9 witness: a return after two update steps.
C9_Witness ==
    /\ SampleDone
    /\ outcome = "returned"
    /\ n = 3
    /\ i = 2

\* C10: after every update step of sample_pagerank the weights of the draw,
\* the running averages, are non-negative and sum to 1, the draw does not
\* fail, and the page drawn has a running average above 0.
C10_DrawIsWellDefined ==
    (fn = "sample_pagerank" /\ i >= 1) =>
        /\ \A p \in DOMAIN pagerank : RLeq(Zero, pagerank[p])
        /\ Total(pagerank) = One
        /\ outcome # "ValueError"
        /\ page \in DOMAIN corpus
        /\ RLess(Zero, pagerank[page])

\* C10 witness: a draw made while the first page of the table had weight 0.
C10_Witness ==
    /\ fn = "sample_pagerank"
    /\ i >= 1
    /\ pagerank[keys(pagerank)[1]] = Zero

====
